---- MODULE Spec2Model ----
(***************************************************************************)
(* A model of handy.js' declarative templating layer                       *)
(* (packages/core/lib/htmlLogic.js): the tree walker htmlLogic, the        *)
(* attribute resolvers, the template registry / expansion and the named    *)
(* data bindings with their set mutator.                                   *)
(*                                                                         *)
(* Representation.  A string that the code takes apart is a sequence of    *)
(* its pieces: a local name "card." is <<"card", ".">>, the attribute name *)
(* "title.class" is <<"title", ".", "class">>, the token "_count_" is      *)
(* <<"_", "count", "_">>, "i_c" is <<"i_", "c">>, a class string "a b" is  *)
(* <<"a", "b">>.  Markup (innerHTML) is a sequence of nodes; assigning     *)
(* innerHTML parses the markup into new element objects (Fresh).           *)
(***************************************************************************)
EXTENDS Integers, Sequences, FiniteSets, TLC

(***************************************************************************)
(* Bounds of the model.                                                    *)
(***************************************************************************)
MaxVal == 2
MaxArr == 2

(***************************************************************************)
(* Number formatting and parsing (String(n), JSON number text).            *)
(***************************************************************************)
Digits == <<"0", "1", "2", "3", "4", "5", "6", "7", "8", "9">>
ToStr(n) == Digits[n + 1]
ToNum(s) == CHOOSE n \in 0..9 : Digits[n + 1] = s

(***************************************************************************)
(* DOM nodes.                                                              *)
(***************************************************************************)
Text(tok) ==
    [type |-> "text", localName |-> <<>>, attrs |-> <<>>, kids |-> <<>>,
     tok |-> tok, visited |-> FALSE, ran |-> <<>>]

Element(localName, attrs, kids) ==
    [type |-> "el", localName |-> localName, attrs |-> attrs, kids |-> kids,
     tok |-> <<>>, visited |-> FALSE, ran |-> <<>>]

Attr(name, value) == [name |-> name, value |-> value]

IsEl(n) == n.type = "el"

hasAttribute(el, name) == \E i \in 1..Len(el.attrs) : el.attrs[i].name = name

\* the value of the first attribute of that name (used only when present)
attrValue(el, name) ==
    el.attrs[CHOOSE i \in 1..Len(el.attrs) :
                /\ el.attrs[i].name = name
                /\ \A j \in 1..(i - 1) : el.attrs[j].name # name].value

\* if (ele.getAttribute(name)): present and not the empty string
truthyAttr(el, name) == hasAttribute(el, name) /\ Len(attrValue(el, name)) > 0

setAttribute(el, name, value) ==
    IF hasAttribute(el, name)
    THEN [el EXCEPT !.attrs =
            [i \in 1..Len(el.attrs) |->
                IF el.attrs[i].name = name THEN Attr(name, value) ELSE el.attrs[i]]]
    ELSE [el EXCEPT !.attrs = Append(el.attrs, Attr(name, value))]

RECURSIVE Fresh(_)
\* parsing markup creates new element objects, not yet seen by the walker
Fresh(nodes) ==
    [i \in 1..Len(nodes) |->
        [nodes[i] EXCEPT !.kids = Fresh(nodes[i].kids), !.visited = FALSE, !.ran = <<>>]]

\* elementFromHtml(el.outerHTML)
elementFromHtml(el) == Fresh(<<el>>)[1]

RECURSIVE DescendantsOf(_, _)
\* the descendant elements under kids[k..] in document order
DescendantsOf(kids, k) ==
    IF k > Len(kids) THEN <<>>
    ELSE (IF IsEl(kids[k]) THEN <<kids[k]>> \o DescendantsOf(kids[k].kids, 1) ELSE <<>>)
         \o DescendantsOf(kids, k + 1)

RECURSIVE replaceAll(_, _, _)
\* markup.replaceAll(token, replacement): every text token equal to the
\* pattern, and every text attribute holding it, becomes the replacement
replaceAll(nodes, tok, rep) ==
    [i \in 1..Len(nodes) |->
        IF IsEl(nodes[i])
        THEN [nodes[i] EXCEPT
                !.kids = replaceAll(nodes[i].kids, tok, rep),
                !.attrs = [j \in 1..Len(nodes[i].attrs) |->
                            IF /\ nodes[i].attrs[j].name = <<"text">>
                               /\ nodes[i].attrs[j].value = tok
                            THEN Attr(<<"text">>, rep)
                            ELSE nodes[i].attrs[j]]]
        ELSE IF nodes[i].tok = tok THEN Text(rep) ELSE nodes[i]]

(***************************************************************************)
(* Objects.  An object is the sequence of its own properties in insertion  *)
(* order; the set mutator is a property holding a function.  The text of a *)
(* data attribute, "{count:1}" or JSON, is <<pairs>> with pairs the        *)
(* sequence of <<key, number text>>; the text of an in attribute is        *)
(* <<items>>.                                                              *)
(***************************************************************************)
Prop(k, v) == [k |-> k, v |-> v, fn |-> FALSE]
SetProp == [k |-> "set", v |-> 0, fn |-> TRUE]

\* eval(` new Object(${ele.getAttribute("data")})`); a missing attribute
\* gives new Object(null), the empty object
evalData(el) ==
    IF hasAttribute(el, <<"data">>)
    THEN LET pairs == attrValue(el, <<"data">>)[1]
         IN [i \in 1..Len(pairs) |-> Prop(pairs[i][1], ToNum(pairs[i][2]))]
    ELSE <<>>

IsData(e) == ~e.fn

\* JSON.stringify(obj): the properties holding functions are left out
JSONstringify(obj) ==
    LET data == SelectSeq(obj, IsData)
    IN <<[i \in 1..Len(data) |-> <<data[i].k, ToStr(data[i].v)>>]>>

hasKey(obj, k) == \E i \in 1..Len(obj) : obj[i].k = k
getKey(obj, k) == obj[CHOOSE i \in 1..Len(obj) : obj[i].k = k].v

\* this.<k> = <v>
assign(obj, k, v) ==
    IF hasKey(obj, k)
    THEN [i \in 1..Len(obj) |-> IF obj[i].k = k THEN Prop(k, v) ELSE obj[i]]
    ELSE Append(obj, Prop(k, v))

\* the fields of an object as a function, without the set mutator
Fields(obj) ==
    [k \in {obj[i].k : i \in {j \in 1..Len(obj) : ~obj[j].fn}} |-> getKey(obj, k)]

(***************************************************************************)
(* window: the named global slots written by the data and loop resolvers.  *)
(* A data binding holds the object and its set closure's ele, as the path  *)
(* of the element from document.body.                                      *)
(***************************************************************************)
Names == {"n", "o", "i", "c"}
NoSlot == [kind |-> "none", obj |-> <<>>, path |-> <<>>, arr |-> <<>>]
DataSlot(obj, path) == [kind |-> "data", obj |-> obj, path |-> path, arr |-> <<>>]
LoopSlot(arr) == [kind |-> "loop", obj |-> <<>>, path |-> <<>>, arr |-> arr]

(***************************************************************************)
(* eval of the expressions the documents use.                              *)
(***************************************************************************)
Val(v) == [kind |-> "val", v |-> v, msg |-> <<>>]
Throw(msg) == [kind |-> "err", v |-> "", msg |-> msg]
ThrowNull == [kind |-> "null", v |-> "", msg |-> <<>>]
ThrowString(text) == [kind |-> "string", v |-> "", msg |-> text]
NoExc == [kind |-> "none", v |-> "", msg |-> <<>>]

eval(e) ==
    CASE e = "1+1" -> Val("2")
      [] e = "1+2" -> Val("3")
      [] e = "0" -> Val("0")
      [] e = "1==1" -> Val("true")
      [] e = "1==2" -> Val("false")
      [] e = "" -> Val("undefined")
      [] e = "{color:'red'}" -> Val("color: red;")
      [] e = "throw null" -> ThrowNull
      [] e = "throw 'oops'" -> ThrowString(<<"oops">>)
      [] e = "<" -> Throw(<<"Unexpected token '<'">>)
      [] OTHER -> Throw(<<e, "is not defined">>)

Falsy(v) == v \in {"false", "0", "", "undefined", "null", "NaN"}
LooseEqZero(v) == v \in {"false", "0", ""}

(***************************************************************************)
(* The resolvers.  Each takes and returns the walker's view of one child:  *)
(* st.el the element, st.win the window slots, st.exc what was thrown.     *)
(***************************************************************************)
State(el, win, exc) == [el |-> el, win |-> win, exc |-> exc]

innerHTML(el, markup) == [el EXCEPT !.kids = Fresh(markup)]

RECURSIVE setItems(_, _, _)
\* lines 224-234: every [item] descendant whose of is the loop name gets
\* the item as content
setItems(nodes, loopName, item) ==
    [j \in 1..Len(nodes) |->
        IF ~IsEl(nodes[j]) THEN nodes[j]
        ELSE IF /\ hasAttribute(nodes[j], <<"item">>)
                /\ hasAttribute(nodes[j], <<"of">>)
                /\ attrValue(nodes[j], <<"of">>) = <<loopName>>
             THEN IF truthyAttr(nodes[j], <<"item">>)
                  THEN innerHTML(nodes[j], <<Text(<<"undefined">>)>>)
                  ELSE innerHTML(nodes[j], <<Text(item)>>)
             ELSE [nodes[j] EXCEPT !.kids = setItems(nodes[j].kids, loopName, item)]]

RECURSIVE loopFrom(_, _, _, _, _)
\* lines 223-238, from iteration i on: the accumulated result
loopFrom(kids, result, i, array, loopName) ==
    IF ~(i < Len(array)) THEN result
    ELSE LET kids1 == setItems(kids, loopName, array[i + 1])
             r1 == result \o kids1
             r2 == replaceAll(r1, <<"i_", loopName>>, <<ToStr(i)>>)
             r3 == replaceAll(r2, <<"v_", loopName>>, array[i + 1])
         IN loopFrom(kids1, r3, i + 1, array, loopName)

loopEle(st) ==
    LET ele == st.el
        loopName == attrValue(ele, <<"loop">>)[1]
        array == IF hasAttribute(ele, <<"in">>) THEN attrValue(ele, <<"in">>)[1] ELSE <<>>
        result == loopFrom(ele.kids, <<>>, 0, array, loopName)
    IN State(innerHTML(ele, result),
             [st.win EXCEPT ![loopName] = LoopSlot(array)],
             NoExc)

RECURSIVE replaceKeys(_, _, _)
\* lines 113-119 / 122-128: for (const key in data) from property i on
replaceKeys(ele, data, i) ==
    IF i > Len(data) THEN ele
    ELSE IF data[i].k = "set" THEN replaceKeys(ele, data, i + 1)
    ELSE replaceKeys(
            innerHTML(ele, replaceAll(ele.kids, <<"_", data[i].k, "_">>, <<ToStr(data[i].v)>>)),
            data, i + 1)

dataAtr(st, path) ==
    LET ele == st.el
    IN  IF truthyAttr(ele, <<"name">>)
        THEN LET name == attrValue(ele, <<"name">>)[1]
                 data == Append(evalData(ele), SetProp)
             IN State(replaceKeys(ele, data, 1),
                      [st.win EXCEPT ![name] = DataSlot(data, path)],
                      NoExc)
        ELSE State(replaceKeys(ele, evalData(ele), 1), st.win, NoExc)

\* the text an element's content is set to for an evaluated value
Rendered(v) == IF v = "" THEN <<>> ELSE <<Text(<<v>>)>>

codeAtr(st) ==
    LET ele == st.el
        src == IF truthyAttr(ele, <<"code">>) THEN attrValue(ele, <<"code">>)[1]
               ELSE IF ele.kids = <<>> THEN ""
               ELSE IF Len(ele.kids) = 1 /\ ~IsEl(ele.kids[1]) /\ Len(ele.kids[1].tok) = 1
                    THEN ele.kids[1].tok[1]
               ELSE "<"
        r == eval(src)
    IN  IF r.kind # "val" THEN State(ele, st.win, r)
        ELSE State(innerHTML(ele, IF ~Falsy(r.v) THEN Rendered(r.v)
                                  ELSE IF LooseEqZero(r.v) THEN Rendered("0")
                                  ELSE <<>>),
                   st.win, NoExc)

styleOf(ele) == IF hasAttribute(ele, <<"style">>) THEN attrValue(ele, <<"style">>) ELSE <<>>

ifAtr(st) ==
    LET ele == st.el
        r == eval(attrValue(ele, <<"if">>)[1])
    IN  IF r.kind # "val" THEN State(ele, st.win, r)
        ELSE IF Falsy(r.v)
             THEN State(setAttribute(ele, <<"style">>, Append(styleOf(ele), "display: none;")),
                        st.win, NoExc)
             ELSE st

styleAtr(st) ==
    LET ele == st.el
        r == eval(attrValue(ele, <<"styling">>)[1])
    IN  IF r.kind # "val" THEN State(ele, st.win, r)
        ELSE State(setAttribute(ele, <<"style">>, Append(styleOf(ele), r.v)), st.win, NoExc)

textAtr(st) ==
    State(innerHTML(st.el, <<Text(attrValue(st.el, <<"text">>))>>), st.win, NoExc)

RECURSIVE insideExprs(_, _)
\* the expressions between _( and )_ under nodes[k..], in document order
insideExprs(nodes, k) ==
    IF k > Len(nodes) THEN <<>>
    ELSE (IF IsEl(nodes[k]) THEN insideExprs(nodes[k].kids, 1)
          ELSE IF Len(nodes[k].tok) = 3 /\ nodes[k].tok[1] = "_(" /\ nodes[k].tok[3] = ")_"
               THEN <<nodes[k].tok[2]>>
          ELSE <<>>)
         \o insideExprs(nodes, k + 1)

RECURSIVE insideBraces(_)
\* lines 204-205: _( becomes {{{ and )_ becomes }}}
insideBraces(nodes) ==
    [j \in 1..Len(nodes) |->
        IF IsEl(nodes[j]) THEN [nodes[j] EXCEPT !.kids = insideBraces(nodes[j].kids)]
        ELSE IF Len(nodes[j].tok) = 3 /\ nodes[j].tok[1] = "_(" /\ nodes[j].tok[3] = ")_"
             THEN Text(<<"{{{", nodes[j].tok[2], "}}}">>)
        ELSE nodes[j]]

RECURSIVE insideEval(_)
\* line 206: every {{{expr}}} span becomes the value of expr
insideEval(nodes) ==
    [j \in 1..Len(nodes) |->
        IF IsEl(nodes[j]) THEN [nodes[j] EXCEPT !.kids = insideEval(nodes[j].kids)]
        ELSE IF Len(nodes[j].tok) = 3 /\ nodes[j].tok[1] = "{{{" /\ nodes[j].tok[3] = "}}}"
             THEN Text(<<eval(nodes[j].tok[2]).v>>)
        ELSE nodes[j]]

insideAtr(st) ==
    LET ele == st.el
        exprs == insideExprs(ele.kids, 1)
        bad == {j \in 1..Len(exprs) : eval(exprs[j]).kind # "val"}
        braced == innerHTML(ele, insideBraces(ele.kids))
    IN  IF bad # {}
        THEN State(braced, st.win, eval(exprs[CHOOSE j \in bad : \A m \in bad : j <= m]))
        ELSE State(innerHTML(braced, insideEval(braced.kids)), st.win, NoExc)

(***************************************************************************)
(* Template expansion.  env holds the two snapshot registries and the live *)
(* definitions the code reads at lines 280 and 283-285 before it replaces  *)
(* them by the snapshots.                                                  *)
(***************************************************************************)
TempCreate == <<"temp", ".", "create">>

IsTempCreate(el) == el.localName = TempCreate

\* document.getElementsByTagName("temp.create")
liveTemps(body) == SelectSeq(DescendantsOf(body.kids, 1), IsTempCreate)

Env(temps, tempsUI, live, liveUI) ==
    [getTempsElements |-> temps, getTempsElementsUI |-> tempsUI, live |-> live, liveUI |-> liveUI]

\* lines 278-287: the list getTemp searches
templateSourceLive(ele, env) ==
    IF hasAttribute(ele, <<"from">>) /\ attrValue(ele, <<"from">>) = <<"handy-ui">>
    THEN env.liveUI
    ELSE env.live

templateSource(ele, env) ==
    IF hasAttribute(ele, <<"from">>) /\ attrValue(ele, <<"from">>) = <<"handy-ui">>
    THEN env.getTempsElementsUI
    ELSE env.getTempsElements

\* target.getAttribute("class") + " " + value: a missing class reads null
classOf(target) ==
    IF hasAttribute(target, <<"class">>) THEN attrValue(target, <<"class">>) ELSE <<"null">>

RECURSIVE projectAttr(_, _, _)
\* lines 298-307 for one attribute att of the calling element
projectAttr(nodes, att, value) ==
    [j \in 1..Len(nodes) |->
        IF ~IsEl(nodes[j]) THEN nodes[j]
        ELSE LET sub == [nodes[j] EXCEPT !.kids = projectAttr(nodes[j].kids, att, value)]
             IN  IF ~hasAttribute(sub, <<"target">>) THEN sub
                 ELSE LET targetName == attrValue(sub, <<"target">>)
                          n == Len(targetName) + 1
                      IN  IF /\ Len(att) >= n
                             /\ SubSeq(att, 1, n) = Append(targetName, ".")
                          THEN IF SubSeq(att, n + 1, Len(att)) = <<"class">>
                               THEN setAttribute(sub, <<"class">>, classOf(sub) \o value)
                               ELSE setAttribute(sub, SubSeq(att, n + 1, Len(att)), value)
                          ELSE sub]

RECURSIVE projectFrom(_, _, _)
\* line 297: ele.getAttributeNames().forEach, from attribute k on
projectFrom(nodes, ele, k) ==
    IF k > Len(ele.attrs) THEN nodes
    ELSE projectFrom(projectAttr(nodes, ele.attrs[k].name, ele.attrs[k].value), ele, k + 1)

RECURSIVE replaceChildren(_, _)
\* markup.replaceAll('_children_', ele.innerHTML)
replaceChildren(nodes, inner) ==
    IF nodes = <<>> THEN <<>>
    ELSE LET h == Head(nodes)
         IN (IF IsEl(h) THEN <<[h EXCEPT !.kids = replaceChildren(h.kids, inner)]>>
             ELSE IF h.tok = <<"_children_">> THEN inner
             ELSE <<h>>)
            \o replaceChildren(Tail(nodes), inner)

RECURSIVE getTempFrom(_, _, _, _)
\* lines 293-312: allTemps.forEach from template k on
getTempFrom(st, path, allTemps, k) ==
    IF k > Len(allTemps) THEN st
    ELSE LET temp == allTemps[k]
             ele == st.el
             tempName == SubSeq(ele.localName, 1, Len(ele.localName) - 1)
         IN  IF hasAttribute(temp, <<"name">>) /\ attrValue(temp, <<"name">>) = tempName
             THEN LET tempInnerHTML == elementFromHtml(temp)
                      projected == projectFrom(tempInnerHTML.kids, ele, 1)
                      expanded == innerHTML(ele, replaceChildren(projected, ele.kids))
                  IN getTempFrom(dataAtr(State(expanded, st.win, NoExc), path),
                                 path, allTemps, k + 1)
             ELSE getTempFrom(st, path, allTemps, k + 1)

getTemp(st, path, env) == getTempFrom(st, path, templateSource(st.el, env), 1)

(***************************************************************************)
(* The tree walker.                                                        *)
(***************************************************************************)
\* lines 38-61: the order in which htmlLogic tries the resolvers
ResolverOrderSwapped == <<"data", "loop", "code", "if", "styling", "inside", "temp", "text">>

ResolverOrder == <<"loop", "data", "code", "if", "styling", "inside", "temp", "text">>

\* the conditions of lines 38, 41, 44, 47, 50, 53, 56, 59
Trigger(r, child) ==
    CASE r = "loop" -> truthyAttr(child, <<"loop">>)
      [] r = "data" -> truthyAttr(child, <<"data">>)
      [] r = "code" -> hasAttribute(child, <<"code">>)
      [] r = "if" -> truthyAttr(child, <<"if">>)
      [] r = "styling" -> truthyAttr(child, <<"styling">>)
      [] r = "inside" -> hasAttribute(child, <<"inside">>)
      [] r = "temp" -> child.localName[Len(child.localName)] = "."
      [] r = "text" -> truthyAttr(child, <<"text">>)

Resolve(r, st, path, env) ==
    CASE r = "loop" -> loopEle(st)
      [] r = "data" -> dataAtr(st, path)
      [] r = "code" -> codeAtr(st)
      [] r = "if" -> ifAtr(st)
      [] r = "styling" -> styleAtr(st)
      [] r = "inside" -> insideAtr(st)
      [] r = "temp" -> getTemp(st, path, env)
      [] r = "text" -> textAtr(st)

RECURSIVE tryResolvers(_, _, _, _)
\* lines 37-61: the try block, from the k-th resolver on; a throw skips
\* the rest
tryResolvers(st, path, env, k) ==
    IF k > Len(ResolverOrder) \/ st.exc.kind # "none" THEN st
    ELSE LET r == ResolverOrder[k]
         IN  IF Trigger(r, st.el)
             THEN tryResolvers(
                    Resolve(r, [st EXCEPT !.el.ran = Append(st.el.ran, r)], path, env),
                    path, env, k + 1)
             ELSE tryResolvers(st, path, env, k + 1)

BannerStyle == <<"background:#f003;color:#f00;padding:4px 10px;width:fit-content;border-radius:8px;">>

\* line 64
errorBanner(message) ==
    <<Element(<<"div">>, <<Attr(<<"style">>, BannerStyle)>>, <<Text(message)>>)>>

\* line 35, as evaluated by the call of line 66: the children list the
\* walker recurses into, given the child's lists before and after its
\* resolvers ran
childrenStale(before, after) == before

children(before, after) == after

Ctx(win, abort) == [win |-> win, abort |-> abort]

Walked(el, win, abort) == [el |-> el, win |-> win, abort |-> abort]

\* lines 62-65, catch (err): the banner shows err.message, which a thrown
\* string does not have; err.message of a thrown null throws again, out of
\* the catch block
catch(st) ==
    CASE st.exc.kind = "err" -> innerHTML(st.el, errorBanner(st.exc.msg))
      [] st.exc.kind = "string" -> innerHTML(st.el, errorBanner(<<"undefined">>))
      [] OTHER -> st.el

\* the child after line 66: with the walked list when that is the child's
\* own list, and as it was when the walker went into a detached list
afterRecursion(caught, list, rec) ==
    Walked(IF list = caught.kids THEN rec.el ELSE caught, rec.win, rec.abort)

RECURSIVE htmlLogicFrom(_, _, _, _, _)

\* line 66: htmlLogic(child), not reached when the catch block threw
recurse(st, caught, list, path, env) ==
    IF st.exc.kind = "null" THEN Walked(caught, st.win, TRUE)
    ELSE afterRecursion(caught, list,
            htmlLogicFrom([caught EXCEPT !.kids = list], 1, path, Ctx(st.win, FALSE), env))

caughtChild(child, st, path, env) ==
    recurse(st, catch(st), children(child.kids, catch(st).kids), path, env)

\* lines 37-66 for one child
visit(child, win, path, env) ==
    caughtChild(child,
        tryResolvers(State([child EXCEPT !.visited = TRUE], win, NoExc), path, env, 1),
        path, env)

\* the forEach goes on with the next child
nextChild(element, k, r, path, env) ==
    htmlLogicFrom([element EXCEPT !.kids[k] = r.el], k + 1, path, Ctx(r.win, r.abort), env)

\* lines 36-67: children.forEach from the k-th node on.  The result is the
\* element, the window slots and whether an exception left the walk.
htmlLogicFrom(element, k, path, ctx, env) ==
    IF k > Len(element.kids) \/ ctx.abort
    THEN Walked(element, ctx.win, ctx.abort)
    ELSE nextChild(element, k,
            IF IsEl(element.kids[k])
            THEN visit(element.kids[k], ctx.win, Append(path, k), env)
            ELSE Walked(element.kids[k], ctx.win, FALSE),
            path, env)

htmlLogic(element, path, ctx, env) == htmlLogicFrom(element, 1, path, ctx, env)

(***************************************************************************)
(* The program's state.                                                    *)
(***************************************************************************)
VARIABLES
    doc,                  \* document.body and its subtree
    myUi,                 \* the UI library root (a global of the page)
    allDataElements,      \* line 13
    getTempsElements,     \* line 256
    getTempsElementsUI,   \* line 257
    window,               \* the global slots window[name]
    pc,                   \* "loading" until body.onload has run, then "ready"
    loaded,               \* history: the document and library as loaded
    aborted,              \* history: an exception has left a walk
    lastCall              \* history: the last call of a set mutator

vars == <<doc, myUi, allDataElements, getTempsElements, getTempsElementsUI,
          window, pc, loaded, aborted, lastCall>>

NoCall == [name |-> "", item |-> "", new |-> 0, edited |-> FALSE]

RECURSIVE NodeAt(_, _)
NodeAt(root, path) ==
    IF path = <<>> THEN root ELSE NodeAt(root.kids[Head(path)], Tail(path))

RECURSIVE ReplaceAt(_, _, _)
ReplaceAt(root, path, el) ==
    IF path = <<>> THEN el
    ELSE [root EXCEPT !.kids[Head(path)] = ReplaceAt(root.kids[Head(path)], Tail(path), el)]

RECURSIVE ValidPath(_, _)
ValidPath(root, path) ==
    \/ path = <<>>
    \/ /\ Head(path) \in 1..Len(root.kids)
       /\ IsEl(root.kids[Head(path)])
       /\ ValidPath(root.kids[Head(path)], Tail(path))

HasData(el) == hasAttribute(el, <<"data">>)

\* lines 19-22
getAllDataElements(body) == Fresh(SelectSeq(DescendantsOf(body.kids, 1), HasData))

\* lines 258-263
getAllTempElements(body, ui) == Env(Fresh(liveTemps(body)), Fresh(ui.kids), liveTemps(body), ui.kids)

(***************************************************************************)
(* The documents.                                                          *)
(***************************************************************************)
Items == {<<"red">>, <<"blue">>, <<"v_", "c">>}

RECURSIVE SeqsUpTo(_, _)
SeqsUpTo(S, n) ==
    IF n = 0 THEN {<<>>}
    ELSE LET shorter == SeqsUpTo(S, n - 1)
         IN shorter \cup {Append(s, x) : s \in shorter, x \in S}

Arrays == SeqsUpTo(Items, MaxArr)

A1(name, word) == Attr(<<name>>, <<word>>)
DataOf(pairs) == Attr(<<"data">>, <<pairs>>)
Key(k) == Text(<<"_", k, "_">>)

\* <temp.create name="card"><h1 target="title" [class]>txt _count_</h1>_children_</temp.create>,
\* hidden by lines 246-249 when the script is loaded
DefCard(classAttrs, txt) ==
    Element(TempCreate, <<A1("name", "card"), A1("style", "display: none;")>>,
        <<Element(<<"h1">>, <<A1("target", "title")>> \o classAttrs,
                  <<Text(<<txt>>), Key("count")>>),
          Text(<<"_children_">>)>>)

DefConfigs ==
    { <<DefCard(<<A1("class", "x")>>, "T")>>,
      <<DefCard(<<>>, "T")>>,
      <<DefCard(<<Attr(<<"class">>, <<>>)>>, "T")>>,
      <<DefCard(<<A1("class", "x")>>, "T"), DefCard(<<A1("class", "y")>>, "U")>> }

Library ==
    Element(<<"div">>, <<>>,
        <<Element(<<"div">>, <<A1("name", "btn")>>,
            <<Element(<<"button">>, <<A1("target", "b"), A1("class", "ui")>>, <<Text(<<"OK">>)>>)>>)>>)

Counter ==
    Element(<<"div">>, <<DataOf(<<<<"count", "1">>>>), A1("name", "n")>>, <<Key("count")>>)

Nested ==
    Element(<<"div">>, <<DataOf(<<<<"a", "1">>>>), A1("name", "o")>>,
        <<Element(<<"span">>, <<>>, <<Key("a")>>),
          Element(<<"p">>, <<DataOf(<<<<"b", "1">>>>), A1("name", "i")>>, <<Key("b")>>)>>)

Loop(arr) ==
    Element(<<"ul">>, <<A1("loop", "c"), Attr(<<"in">>, <<arr>>)>>,
        <<Element(<<"li">>, <<>>, <<Text(<<"i_", "c">>), Text(<<"v_", "c">>)>>),
          Element(<<"b">>, <<Attr(<<"item">>, <<>>), A1("of", "c")>>, <<>>)>>)

LoopData ==
    Element(<<"div">>, <<A1("loop", "c"), Attr(<<"in">>, <<<<<<"red">>>>>>),
                         DataOf(<<<<"count", "1">>>>)>>,
        <<Text(<<"v_", "c">>), Key("count")>>)

CardAttrs == <<Attr(<<"title", ".", "class">>, <<"big">>), Attr(<<"title", ".", "id">>, <<"t">>)>>

InstanceBound ==
    Element(<<"card", ".">>, <<DataOf(<<<<"count", "1">>>>), A1("name", "n")>> \o CardAttrs,
        <<Text(<<"kid">>)>>)

InstancePlain == Element(<<"card", ".">>, CardAttrs, <<Text(<<"kid">>)>>)

InstanceInBound ==
    Element(<<"div">>, <<DataOf(<<<<"a", "1">>>>), A1("name", "o")>>,
        <<Element(<<"span">>, <<>>, <<Key("a")>>), InstancePlain>>)

InstanceUI ==
    Element(<<"btn", ".">>, <<A1("from", "handy-ui"), Attr(<<"b", ".", "class">>, <<"big">>)>>, <<>>)

InstanceUIInBound ==
    Element(<<"div">>, <<DataOf(<<<<"a", "1">>>>), A1("name", "o")>>, <<InstanceUI>>)

InstanceNone == Element(<<"nope", ".">>, <<>>, <<Text(<<"kid">>)>>)

CodeAttr(e) == Element(<<"div">>, <<A1("code", e)>>, <<Element(<<"span">>, <<>>, <<Text(<<"x">>)>>)>>)
CodeContent == Element(<<"p">>, <<Attr(<<"code">>, <<>>)>>, <<Text(<<"1+2">>)>>)
IfEl(e) == Element(<<"p">>, <<A1("if", e)>>, <<Text(<<"shown">>)>>)
Styled == Element(<<"p">>, <<A1("styling", "{color:'red'}")>>, <<Text(<<"red">>)>>)
Inside(e) == Element(<<"p">>, <<Attr(<<"inside">>, <<>>)>>, <<Text(<<"_(", e, ")_">>), Text(<<"hello">>)>>)
TextEl == Element(<<"p">>, <<Attr(<<"text">>, <<"hello">>)>>, <<Text(<<"old">>)>>)

Widgets ==
    {<<Counter>>, <<Nested>>, <<LoopData>>, <<InstanceBound>>, <<InstancePlain>>,
     <<InstanceInBound>>, <<InstanceUI>>, <<InstanceUIInBound>>, <<InstanceNone>>,
     <<CodeContent>>, <<Styled>>, <<Counter, InstanceBound>>}
    \cup {<<Loop(arr)>> : arr \in Arrays}
    \cup {<<CodeAttr(e)>> : e \in {"1+1", "0", "boom", "throw null", "throw 'oops'"}}
    \cup {<<IfEl(e)>> : e \in {"1==1", "1==2", "boom"}}
    \cup {<<Inside(e)>> : e \in {"1+2", "boom", "throw null"}}

\* every document ends with a later sibling, <p text="hello">old</p>
Body(defs, widgets) == Element(<<"body">>, <<>>, defs \o widgets \o <<TextEl>>)

(***************************************************************************)
(* Init: the page as loaded, before body.onload.                           *)
(***************************************************************************)
Init ==
    /\ \E defs \in DefConfigs, w \in Widgets : doc = Body(defs, w)
    /\ myUi = Library
    /\ allDataElements = <<>>
    /\ getTempsElements = <<>>
    /\ getTempsElementsUI = <<>>
    /\ window = [n \in Names |-> NoSlot]
    /\ pc = "loading"
    /\ loaded = [doc |-> doc, myUi |-> myUi]
    /\ aborted = FALSE
    /\ lastCall = NoCall

(***************************************************************************)
(* body.onload, lines 14-26.                                               *)
(***************************************************************************)
Onload ==
    /\ pc = "loading"
    /\ LET env == getAllTempElements(doc, myUi)
           r == htmlLogic(doc, <<>>, Ctx(window, FALSE), env)
       IN /\ allDataElements' = getAllDataElements(doc)
          /\ getTempsElements' = env.getTempsElements
          /\ getTempsElementsUI' = env.getTempsElementsUI
          /\ doc' = r.el
          /\ window' = r.win
          /\ aborted' = r.abort
    /\ pc' = "ready"
    /\ UNCHANGED <<myUi, loaded, lastCall>>

(***************************************************************************)
(* window[name].set(item, value), lines 99-110.  value is a literal        *)
(* number or the updater v => v + 1.                                       *)
(***************************************************************************)
Literal(v) == [fn |-> FALSE, v |-> v]
Updater == [fn |-> TRUE, v |-> 0]

RECURSIVE getInnerFrom(_, _, _)
\* lines 86-93: allDataElements.forEach from the k-th snapshot on
getInnerFrom(ele, snapshots, k) ==
    IF k > Len(snapshots) THEN ele
    ELSE IF /\ hasAttribute(snapshots[k], <<"name">>)
            /\ attrValue(snapshots[k], <<"name">>) = attrValue(ele, <<"name">>)
         THEN getInnerFrom(innerHTML(ele, snapshots[k].kids), snapshots, k + 1)
         ELSE getInnerFrom(ele, snapshots, k + 1)

\* a live template definition, or the library, is no longer as registered
Edited ==
    \/ Fresh(liveTemps(doc)) # getTempsElements
    \/ Fresh(myUi.kids) # getTempsElementsUI

\* the handler's effect on the state, given the walk of line 109
setDone(path, r) ==
    /\ doc' = ReplaceAt(doc, path, r.el)
    /\ window' = r.win
    /\ aborted' = (aborted \/ r.abort)

\* line 105
serializeSkipped(ele, win1) == ele

serialize(ele, win1) ==
    setAttribute(ele, <<"data">>, JSONstringify(win1[attrValue(ele, <<"name">>)[1]].obj))

\* lines 105-109, with this already assigned
setRender(ele, win1, path) ==
    LET name == attrValue(ele, <<"name">>)[1]
        ele1 == serialize(ele, win1)
        data == win1[name].obj
        ele2 == getInnerFrom(ele1, allDataElements, 1)
    IN setDone(path,
               htmlLogic(replaceKeys(ele2, data, 1), path, Ctx(win1, FALSE),
                         Env(getTempsElements, getTempsElementsUI, liveTemps(doc), myUi.kids)))

\* lines 100-104: this.<item> = value(this.<item>) or this.<item> = value
set(name, item, value) ==
    LET this == window[name].obj
        new == IF value.fn THEN getKey(this, item) + 1 ELSE value.v
    IN /\ setRender(NodeAt(doc, window[name].path),
                    [window EXCEPT ![name].obj = assign(this, item, new)],
                    window[name].path)
       /\ lastCall' = [name |-> name, item |-> item, new |-> new, edited |-> Edited]

DataKeys(obj) == {obj[i].k : i \in {j \in 1..Len(obj) : ~obj[j].fn}}

Set ==
    /\ pc = "ready"
    /\ \E name \in Names :
        /\ window[name].kind = "data"
        /\ \/ \E item \in DataKeys(window[name].obj) \cup {"q"}, v \in 0..MaxVal :
                set(name, item, Literal(v))
           \/ \E item \in DataKeys(window[name].obj) :
                /\ getKey(window[name].obj, item) < MaxVal
                /\ set(name, item, Updater)
    /\ UNCHANGED <<myUi, allDataElements, getTempsElements, getTempsElementsUI, pc, loaded>>

(***************************************************************************)
(* The page's own scripts may edit a live template definition, or the      *)
(* library, after startup.                                                 *)
(***************************************************************************)
EditLiveTemplate ==
    /\ pc = "ready"
    /\ doc' = [doc EXCEPT !.kids =
                [j \in 1..Len(doc.kids) |->
                    IF IsEl(doc.kids[j]) /\ IsTempCreate(doc.kids[j])
                    THEN [doc.kids[j] EXCEPT !.kids = replaceAll(@, <<"T">>, <<"edited">>)]
                    ELSE doc.kids[j]]]
    /\ doc' # doc
    /\ UNCHANGED <<myUi, allDataElements, getTempsElements, getTempsElementsUI,
                   window, pc, loaded, aborted, lastCall>>

EditLibrary ==
    /\ pc = "ready"
    /\ myUi' = [myUi EXCEPT !.kids = replaceAll(@, <<"OK">>, <<"edited">>)]
    /\ myUi' # myUi
    /\ UNCHANGED <<doc, allDataElements, getTempsElements, getTempsElementsUI,
                   window, pc, loaded, aborted, lastCall>>

Next == Onload \/ Set \/ EditLiveTemplate \/ EditLibrary

Spec == Init /\ [][Next]_vars

(***************************************************************************)
(* Vocabulary of the properties.                                           *)
(***************************************************************************)
NoWindow == [n \in Names |-> NoSlot]

\* the element paths of a subtree, from the path of its root
RECURSIVE PathsOf(_, _)
PathsOf(el, path) ==
    {path} \cup UNION {PathsOf(el.kids[j], Append(path, j)) :
                        j \in {m \in 1..Len(el.kids) : IsEl(el.kids[m])}}

Bound == {n \in Names : window[n].kind = "data"}

Owner(n) == NodeAt(doc, window[n].path)

IsInstance(el) == el.localName[Len(el.localName)] = "."

\* the template instances of the loaded document that carry no binding and
\* are still at their place in the document
PlainInstances ==
    {p \in PathsOf(loaded.doc, <<>>) :
        /\ IsInstance(NodeAt(loaded.doc, p))
        /\ ~hasAttribute(NodeAt(loaded.doc, p), <<"name">>)
        /\ ValidPath(doc, p)
        /\ NodeAt(doc, p).localName = NodeAt(loaded.doc, p).localName
        /\ NodeAt(doc, p).visited}

\* the definitions registered at startup that an instance names
Registered(ele) ==
    LET source == IF hasAttribute(ele, <<"from">>) /\ attrValue(ele, <<"from">>) = <<"handy-ui">>
                  THEN Fresh(loaded.myUi.kids)
                  ELSE Fresh(liveTemps(loaded.doc))
        HasName(temp) == /\ hasAttribute(temp, <<"name">>)
                         /\ attrValue(temp, <<"name">>) = SubSeq(ele.localName, 1, Len(ele.localName) - 1)
    IN SelectSeq(source, HasName)

\* the content an instance gets when expanded from the given definitions
ExpandedFrom(temps, ele) == Fresh(getTempFrom(State(ele, NoWindow, NoExc), <<>>, temps, 1).el.kids)

(***************************************************************************)
(* C1: after every call of a named binding's set, and after any sequence   *)
(* of such calls, the data attribute of the owning element reads back to   *)
(* the field values of the object stored under the binding's name (the set *)
(* mutator excluded).                                                      *)
(***************************************************************************)
C1_AttributeInSync ==
    pc = "ready" =>
        \A n \in Bound :
            /\ ValidPath(doc, window[n].path)
            /\ hasAttribute(Owner(n), <<"data">>)
            /\ Fields(evalData(Owner(n))) = Fields(window[n].obj)

\* a set call has added a field and changed another one
C1_Witness ==
    /\ pc = "ready"
    /\ \E n \in Bound :
        /\ lastCall.name = n
        /\ hasKey(window[n].obj, "q")
        /\ Fields(window[n].obj) # Fields(evalData(NodeAt(loaded.doc, window[n].path)))
        /\ Fields(evalData(Owner(n))) = Fields(window[n].obj)

RECURSIVE WithCurrentData(_, _)
WithCurrentData(body, names) ==
    IF names = {} THEN body
    ELSE LET n == CHOOSE m \in names : TRUE
             rest == WithCurrentData(body, names \ {n})
         IN ReplaceAt(rest, window[n].path,
                      setAttribute(NodeAt(rest, window[n].path), <<"data">>,
                                   JSONstringify(window[n].obj)))

FirstRendering ==
    htmlLogic(WithCurrentData(loaded.doc, Bound), <<>>, Ctx(NoWindow, FALSE),
              getAllTempElements(loaded.doc, loaded.myUi)).el

(***************************************************************************)
(* C2: each set call leaves the stored field holding the new value and the *)
(* owning element's content showing every _key_ token replaced by the      *)
(* fields' current values, for an element written in the document and for  *)
(* a template instance alike: the content is the one a first rendering of  *)
(* the loaded document gives with the current values in the data           *)
(* attributes.                                                             *)
(***************************************************************************)
C2_ContentShowsCurrentValues ==
    (pc = "ready" /\ lastCall.name # "") =>
        /\ getKey(window[lastCall.name].obj, lastCall.item) = lastCall.new
        /\ \A n \in Bound :
            Fresh(Owner(n).kids) = Fresh(NodeAt(FirstRendering, window[n].path).kids)

(***************************************************************************)
(* C3: a resolver that throws costs only its own element's content, which  *)
(* becomes the error banner with the thrown message; the walk goes on:     *)
(* every child of the body is visited and the later sibling                *)
(* <p text="hello"> is rendered as without the failure.                    *)
(***************************************************************************)
C3_FailureIsLocal ==
    pc = "ready" =>
        /\ \A j \in 1..Len(doc.kids) : IsEl(doc.kids[j]) => doc.kids[j].visited
        /\ Fresh(doc.kids[Len(doc.kids)].kids) = <<Text(<<"hello">>)>>
        /\ \A j \in 1..Len(doc.kids) :
            /\ (/\ hasAttribute(doc.kids[j], <<"code">>)
                /\ attrValue(doc.kids[j], <<"code">>) = <<"boom">>)
               => Fresh(doc.kids[j].kids) = errorBanner(<<"boom", "is not defined">>)
            /\ (/\ hasAttribute(doc.kids[j], <<"code">>)
                /\ attrValue(doc.kids[j], <<"code">>) = <<"throw 'oops'">>)
               => Fresh(doc.kids[j].kids) = errorBanner(<<"oops">>)

FixedOrder == <<"loop", "data", "code", "if", "styling", "inside", "temp", "text">>

Rank(r) == CHOOSE k \in 1..Len(FixedOrder) : FixedOrder[k] = r

Present(r, el) ==
    IF r = "temp" THEN IsInstance(el) ELSE hasAttribute(el, <<r>>)

C5_SnapshotsOnly ==
    pc = "ready" =>
        /\ getTempsElements = Fresh(liveTemps(loaded.doc))
        /\ getTempsElementsUI = Fresh(loaded.myUi.kids)
        /\ \A p \in PlainInstances :
            Fresh(NodeAt(doc, p).kids)
                = ExpandedFrom(Registered(NodeAt(loaded.doc, p)), NodeAt(loaded.doc, p))

\* a set call has rendered an instance again after the live definition, or
\* the library, was edited, and the instance is expanded
C5_Witness ==
    /\ pc = "ready"
    /\ lastCall.edited
    /\ \E p \in PlainInstances :
        /\ Len(p) > 1
        /\ Registered(NodeAt(loaded.doc, p)) # <<>>
        /\ SubSeq(p, 1, Len(p) - 1) = window[lastCall.name].path
        /\ Fresh(NodeAt(doc, p).kids) # Fresh(NodeAt(loaded.doc, p).kids)

(***************************************************************************)
(* C6: an instance is expanded once, from the first registered definition  *)
(* whose name matches, and is left as it is when none matches.             *)
(***************************************************************************)
C6_FirstMatchOnly ==
    pc = "ready" =>
        \A p \in PlainInstances :
            LET ele == NodeAt(loaded.doc, p)
            IN Fresh(NodeAt(doc, p).kids)
                = IF Registered(ele) = <<>> THEN Fresh(ele.kids)
                  ELSE ExpandedFrom(<<Registered(ele)[1]>>, ele)

RECURSIVE ClaimedTokens(_, _, _, _)
\* the markup with its own i_L and v_L tokens replaced, each once
ClaimedTokens(markup, loopName, k, item) ==
    [j \in 1..Len(markup) |->
        IF IsEl(markup[j])
        THEN [markup[j] EXCEPT !.kids = ClaimedTokens(markup[j].kids, loopName, k, item)]
        ELSE IF markup[j].tok = <<"i_", loopName>> THEN Text(<<ToStr(k)>>)
        ELSE IF markup[j].tok = <<"v_", loopName>> THEN Text(item)
        ELSE markup[j]]

ClaimedCopy(markup, loopName, k, item) ==
    setItems(ClaimedTokens(markup, loopName, k, item), loopName, item)

RECURSIVE ClaimedCopies(_, _, _, _)
ClaimedCopies(markup, loopName, array, k) ==
    IF k >= Len(array) THEN <<>>
    ELSE ClaimedCopy(markup, loopName, k, array[k + 1])
         \o ClaimedCopies(markup, loopName, array, k + 1)

(***************************************************************************)
(* C7: a loop over an array of length n leaves exactly n copies of the     *)
(* inner markup, in array order, copy k with every i_L token replaced by k *)
(* and every v_L token by the k-th item, for every array content.          *)
(***************************************************************************)
C7_LoopCopies ==
    pc = "ready" =>
        \A j \in 1..Len(doc.kids) :
            (/\ truthyAttr(doc.kids[j], <<"loop">>)
             /\ ~hasAttribute(doc.kids[j], <<"data">>)
             /\ doc.kids[j].visited)
            => Fresh(doc.kids[j].kids)
                = Fresh(ClaimedCopies(loaded.doc.kids[j].kids,
                                      attrValue(doc.kids[j], <<"loop">>)[1],
                                      attrValue(doc.kids[j], <<"in">>)[1], 0))

IsTarget(el) == hasAttribute(el, <<"target">>)

ClassList(el) == IF hasAttribute(el, <<"class">>) THEN attrValue(el, <<"class">>) ELSE <<>>

\* the targets of the registered definitions an instance names
DefinedTargets(ele) ==
    LET defs == Registered(ele)
    IN UNION {{t \in {DescendantsOf(defs[d].kids, 1)[m] :
                        m \in 1..Len(DescendantsOf(defs[d].kids, 1))} : IsTarget(t)} :
              d \in 1..Len(defs)}

(***************************************************************************)
(* C8: in an expansion, a caller attribute slot.attr sets attr on every    *)
(* target of the cloned definition whose slot name is slot, except class,  *)
(* whose value is appended to the class list the target has in the         *)
(* definition; that list may be empty or absent.                           *)
(***************************************************************************)
C8_Projection ==
    pc = "ready" =>
        \A p \in PlainInstances :
            LET ele == NodeAt(doc, p)
                targets == SelectSeq(DescendantsOf(ele.kids, 1), IsTarget)
            IN \A t \in 1..Len(targets), a \in 1..Len(ele.attrs) :
                LET slot == attrValue(targets[t], <<"target">>)
                    att == ele.attrs[a].name
                    attr == SubSeq(att, Len(slot) + 2, Len(att))
                IN (Len(att) > Len(slot) + 1 /\ SubSeq(att, 1, Len(slot) + 1) = Append(slot, "."))
                   => /\ hasAttribute(targets[t], attr)
                      /\ IF attr = <<"class">>
                         THEN \E d \in DefinedTargets(NodeAt(loaded.doc, p)) :
                                /\ attrValue(d, <<"target">>) = slot
                                /\ attrValue(targets[t], attr) = ClassList(d) \o ele.attrs[a].value
                         ELSE attrValue(targets[t], attr) = ele.attrs[a].value

(***************************************************************************)
(* C9: when a walk completes, every element of the resulting subtree has   *)
(* been visited by the walker, the elements created when a resolver        *)
(* rewrote its element's content included.                                 *)
(***************************************************************************)
C9_AllVisited ==
    (pc = "ready" /\ ~aborted) =>
        \A p \in PathsOf(doc, <<>>) \ {<<>>} : NodeAt(doc, p).visited

\* a loop has put more elements into its element than were written there
C9_Witness ==
    /\ pc = "ready"
    /\ ~aborted
    /\ \E j \in 1..Len(doc.kids) :
        /\ truthyAttr(doc.kids[j], <<"loop">>)
        /\ Len(doc.kids[j].kids) > Len(loaded.doc.kids[j].kids)
        /\ \A p \in PathsOf(doc.kids[j], <<>>) : NodeAt(doc.kids[j], p).visited

(***************************************************************************)
(* C10: a set call on one binding changes the stored object of no other    *)
(* binding, bindings nested in the owning element and changed by earlier   *)
(* set calls included.                                                     *)
(***************************************************************************)
C10_OtherBindingsKept ==
    [][pc = "ready" =>
        \A n \in Names :
            (window[n].kind = "data" /\ window'[n].kind = "data" /\ n # lastCall'.name)
            => Fields(window'[n].obj) = Fields(window[n].obj)]_vars

====
